---------------------------- MODULE Spec2Model ----------------------------
(***************************************************************************)
(* A model of the DeGiro client library (create() and the operations it    *)
(* returns).  The model follows the validated client of                    *)
(* src/unnamed/part_000, the variant that exports every operation the      *)
(* specification lists (getTasks, getOrdersHistory, getTransactions        *)
(* included); src/unnamed/part_001 is the superseded near-duplicate.       *)
(*                                                                         *)
(* JavaScript strings that the code takes apart (instrument ids, stream    *)
(* field names, date texts) are sequences of one-character strings.        *)
(* Every promise chain is a sequence of steps: one action per HTTP         *)
(* completion, each running the whole .then handler that the completion    *)
(* triggers, the next request it issues included.                          *)
(***************************************************************************)
EXTENDS Integers, Sequences, FiniteSets, TLC

(***************************************************************************)
(* Bounds of the model.                                                    *)
(***************************************************************************)
\* number of getAskBidPrice calls that may run concurrently on one client
NumQuoteCalls == 2
\* number of setOrder and deleteOrder calls that may run concurrently
NumTradeCalls == 2
\* longest list of currency entries in a cash-funds payload
MaxEntries == 2
\* longest list of name/value pairs in one currency entry
MaxPairs == 2

(***************************************************************************)
(* JavaScript values and string helpers.                                   *)
(***************************************************************************)
\* the JavaScript values undefined and null
Undefined == "undefined"
Null == "null"

\* String(undefined), the property name that prices[undefined] writes
UndefinedKey == <<"u", "n", "d", "e", "f", "i", "n", "e", "d">>

\* String.prototype.startsWith
startsWith(s, p) == Len(p) <= Len(s) /\ SubSeq(s, 1, Len(p)) = p

\* String.prototype.slice(n) for n >= 0
slice(s, n) == SubSeq(s, n + 1, Len(s))

\* String.prototype.toLowerCase on one character of the model's alphabet
toLowerCase(c) ==
    CASE c = "A" -> "a"
      [] c = "B" -> "b"
      [] c = "L" -> "l"
      [] c = "P" -> "p"
      [] c = "T" -> "t"
      [] OTHER -> c

\* utils.lcFirst: str.charAt(0).toLowerCase() + str.slice(1)
lcFirst(str) ==
    IF Len(str) = 0 THEN <<>> ELSE <<toLowerCase(str[1])>> \o slice(str, 1)

(***************************************************************************)
(* The outcomes of one HTTP exchange, as the promise chain sees them:      *)
(*   transport  fetch() rejects                                            *)
(*   badjson    res.json() rejects (the body is no JSON)                   *)
(*   httperr    res.ok is false: checkSuccess throws                       *)
(*   ok         res.ok is true: checkSuccess returns the parsed body       *)
(***************************************************************************)
Outcomes == {"transport", "badjson", "httperr", "ok"}

(***************************************************************************)
(* Quote poller.                                                           *)
(***************************************************************************)
QuoteCalls == 1..NumQuoteCalls

\* instrument ids a caller asks for
Id12 == <<"1", "2">>
IssueIds == {Id12}

\* stream field names of the vendor: "<issueId>.<Field>"
F12Bid == <<"1", "2", ".", "B", "i", "d">>
F12Ask == <<"1", "2", ".", "A", "s", "k">>
F123Bid == <<"1", "2", "3", ".", "B", "i", "d">>
F9Bid == <<"9", ".", "B", "i", "d">>

\* rows of a poll response
RowH == [m |-> "h", v |-> <<>>]
RowReq(name, key) == [m |-> "a_req", v |-> <<name, key>>]
RowUn(key, val) == [m |-> "un", v |-> <<key, val>>]
RowUs(key, val) == [m |-> "us", v |-> <<key, val>>]

\* parsed bodies of poll responses: isArray is Array.isArray(res)
Body(rows) == [isArray |-> TRUE, rows |-> rows]
NotArray == [isArray |-> FALSE, rows |-> <<>>]
Heartbeat == Body(<<RowH>>)
DataA == Body(<<RowReq(F12Bid, 1), RowReq(F12Ask, 2), RowUn(1, 10), RowUn(2, 11)>>)
DataB == Body(<<RowH, RowReq(F12Bid, 1), RowUn(1, 20), RowUs(1, 21)>>)
\* rows of the instrument asked for, of an instrument whose id begins with
\* it, and of an unrelated instrument; one field without an update
DataC ==
    Body(<<RowReq(F12Bid, 1), RowReq(F12Ask, 4), RowReq(F123Bid, 2),
           RowReq(F9Bid, 3), RowUn(1, 30), RowUn(2, 31), RowUn(3, 32)>>)
\* a single row that is no heartbeat
DataD == Body(<<RowReq(F12Bid, 1)>>)
PollBodies == {Heartbeat, NotArray, Body(<<>>), DataA, DataB, DataC, DataD}

\* prices[key] = val on a JavaScript object
SetProp(obj, key, val) ==
    [k \in DOMAIN obj \cup {key} |-> IF k = key THEN val ELSE obj[k]]

\* keys[k] of the sparse array keys, coerced to a property name
KeyName(keys, k) == IF k \in DOMAIN keys THEN keys[k] ELSE UndefinedKey

\* one pass of res.forEach(row => ...) in checkData
ProcessRow(issueId, acc, row) ==
    IF row.m = "a_req"
    THEN IF startsWith(row.v[1], issueId)
         THEN LET key == lcFirst(slice(row.v[1], Len(issueId) + 1))
              IN  [prices |-> SetProp(acc.prices, key, Null),
                   keys |-> SetProp(acc.keys, row.v[2], key)]
         ELSE acc
    ELSE IF row.m = "un" \/ row.m = "us"
         THEN [acc EXCEPT !.prices =
                   SetProp(acc.prices, KeyName(acc.keys, row.v[1]), row.v[2])]
         ELSE acc

RECURSIVE ProcessRows(_, _, _)
ProcessRows(issueId, acc, rows) ==
    IF rows = <<>> THEN acc
    ELSE ProcessRows(issueId, ProcessRow(issueId, acc, Head(rows)), Tail(rows))

\* the prices object checkData returns for a response that is not a lone heartbeat
ProcessData(issueId, rows) ==
    ProcessRows(issueId, [prices |-> <<>>, keys |-> <<>>], rows).prices

\* a retry test that takes an empty array for a heartbeat
IsLoneHeartbeatOrEmpty(res) ==
    res.rows = <<>> \/ (Len(res.rows) = 1 /\ res.rows[1].m = "h")

\* a retry test that forgets res.length == 1
IsLoneHeartbeatAnyLength(res) == res.rows # <<>> /\ res.rows[1].m = "h"

\* retry needed? (res.length == 1 && res[0].m == 'h')
IsLoneHeartbeat(res) == Len(res.rows) = 1 /\ res.rows[1].m = "h"

\* a retry test without a cap
MayRetryAlways(timesChecked) == timesChecked >= 0

\* the retry cap of checkData: timesChecked <= 3, after timesChecked++
MayRetry(timesChecked) == timesChecked <= 3

VARIABLES
    quote,     \* per getAskBidPrice call: the state of its promise chain
    session,   \* the session record of create()
    urls,      \* the routing-URL record of create()
    otp,       \* the oneTimePassword option of create()
    login,     \* the state of the login() promise chain
    trade,     \* per setOrder or deleteOrder call: the state of its promise chain
    cash,      \* the state of the getCashFunds() promise chain
    orders,    \* the state of the getOrders() promise chain
    fetcher    \* the state of the promise chain of a one-exchange operation

vars == <<quote, session, urls, otp, login, trade, cash, orders, fetcher>>
qvars == <<quote>>
lvars == <<session, urls, otp, login>>
tvars == <<trade>>
cvars == <<cash>>
ovars == <<orders>>
fvars == <<fetcher>>
notQuote == <<lvars, tvars, cvars, ovars, fvars>>
notLogin == <<qvars, tvars, cvars, ovars, fvars>>
notTrade == <<qvars, lvars, cvars, ovars, fvars>>
notCash == <<qvars, lvars, tvars, ovars, fvars>>
notOrders == <<qvars, lvars, tvars, cvars, fvars>>
notFetcher == <<qvars, otp, login, tvars, cvars, ovars>>

\* no quote-service session id (a request that carries none)
NoSid == <<>>

\* a call that has not been made
QuoteIdle ==
    [pc |-> "idle", issueId |-> <<>>, timesChecked |-> 0, vwdSession |-> NoSid,
     log |-> <<>>, polled |-> <<>>, result |-> <<>>, error |-> "none",
     subscribeStatus |-> "none"]

QuoteInit == quote = [c \in QuoteCalls |-> QuoteIdle]

\* a request that never carries a quote-service session id
ReqWithoutSid(kind, sid) == [kind |-> kind, sid |-> NoSid]

\* the request requestVwdSession, the subscribe POST or the poll GET sends
Req(kind, sid) == [kind |-> kind, sid |-> sid]

\* the quote-service session id the vendor hands out for the n-th session
\* request of call c: fresh for every request
FreshSid(c, n) == <<c, n>>

Count(log, kind) == Cardinality({i \in DOMAIN log : log[i].kind = kind})

\* getAskBidPrice(issueId): requestVwdSession() sends the session POST
GetAskBidPrice(c, issueId) ==
    /\ quote[c].pc = "idle"
    /\ quote' = [quote EXCEPT ![c] =
                    [@ EXCEPT !.pc = "session", !.issueId = issueId,
                              !.timesChecked = 0,
                              !.log = Append(@, Req("session", NoSid))]]
    /\ UNCHANGED notQuote

\* completion of the session POST with vwdSession kept in one variable of
\* the client instead of the call's closure
SessionResponseSharedSession(c, outcome) ==
    /\ quote[c].pc = "session"
    /\ IF outcome = "ok"
       THEN LET sid == FreshSid(c, Count(quote[c].log, "session"))
            IN  quote' = [d \in QuoteCalls |->
                             IF d = c
                             THEN [quote[d] EXCEPT
                                      !.pc = "subscribe", !.vwdSession = sid,
                                      !.log = Append(@, Req("subscribe", sid))]
                             ELSE [quote[d] EXCEPT !.vwdSession = sid]]
       ELSE quote' = [quote EXCEPT ![c] =
                         [@ EXCEPT !.pc = "rejected", !.error = outcome]]
    /\ UNCHANGED notQuote

\* completion of the session POST: checkSuccess, then the handler that
\* posts the subscription control message on vwdSession.sessionId
SessionResponse(c, outcome) ==
    /\ quote[c].pc = "session"
    /\ IF outcome = "ok"
       THEN LET sid == FreshSid(c, Count(quote[c].log, "session"))
            IN  quote' = [quote EXCEPT ![c] =
                             [@ EXCEPT !.pc = "subscribe", !.vwdSession = sid,
                                       !.log = Append(@, Req("subscribe", sid))]]
       ELSE quote' = [quote EXCEPT ![c] =
                         [@ EXCEPT !.pc = "rejected", !.error = outcome]]
    /\ UNCHANGED notQuote

\* completion of the subscribe POST: .then(() => fetch(poll url)); the
\* response is not looked at (its body is never parsed, its status never
\* tested), only a transport failure rejects. subscribeStatus is the status
\* of that dropped response, for as long as the poll it led to is pending.
SubscribeResponse(c, outcome) ==
    /\ quote[c].pc = "subscribe"
    /\ IF outcome = "transport"
       THEN quote' = [quote EXCEPT ![c] =
                         [@ EXCEPT !.pc = "rejected", !.error = outcome]]
       ELSE quote' = [quote EXCEPT ![c] =
                         [@ EXCEPT !.pc = "poll",
                                   !.subscribeStatus =
                                       IF outcome = "httperr" THEN "httperr" ELSE "ok",
                                   !.log = Append(@, Req("poll", quote[c].vwdSession))]]
    /\ UNCHANGED notQuote

\* checkData(res), run on the parsed body of a successful poll
checkData(c, res) ==
    LET timesChecked == quote[c].timesChecked + 1
        seen == Append(quote[c].polled, res)
    IN  IF ~res.isArray
        THEN quote' = [quote EXCEPT ![c] =
                 [@ EXCEPT !.pc = "rejected", !.error = "Bad result",
                           !.timesChecked = timesChecked, !.polled = seen,
                           !.subscribeStatus = "none"]]
        ELSE IF IsLoneHeartbeat(res)
        THEN IF MayRetry(timesChecked)
             THEN quote' = [quote EXCEPT ![c] =
                      [@ EXCEPT !.pc = "session", !.timesChecked = timesChecked,
                                !.polled = seen, !.subscribeStatus = "none",
                                !.log = Append(@, Req("session", NoSid))]]
             ELSE quote' = [quote EXCEPT ![c] =
                      [@ EXCEPT !.pc = "rejected", !.error = "Tried 3 times",
                                !.timesChecked = timesChecked, !.polled = seen,
                                !.subscribeStatus = "none"]]
        ELSE quote' = [quote EXCEPT ![c] =
                 [@ EXCEPT !.pc = "resolved",
                           !.result = ProcessData(quote[c].issueId, res.rows),
                           !.timesChecked = timesChecked, !.polled = seen,
                           !.subscribeStatus = "none"]]

\* completion of the poll GET: res.json(), checkSuccess, checkData
PollResponse(c, outcome, res) ==
    /\ quote[c].pc = "poll"
    /\ IF outcome = "ok"
       THEN checkData(c, res)
       ELSE quote' = [quote EXCEPT ![c] =
                         [@ EXCEPT !.pc = "rejected", !.error = outcome,
                                   !.subscribeStatus = "none"]]
    /\ UNCHANGED notQuote

(***************************************************************************)
(* Bootstrap: login -> config -> client info.                              *)
(***************************************************************************)
\* JavaScript truthiness of a string-or-undefined value (!session.id)
Truthy(v) == v # Undefined /\ v # ""

\* options of create(): sessionId, account (+undefined is NaN), oneTimePassword
InitialSessionIds == {Undefined, "S0"}
InitialAccounts == {"NaN", "acc7"}
OneTimePasswords == {Undefined, "123456"}

\* cookies.JSESSIONID of a login response: absent, empty, or a session id
Cookies == {Undefined, "", "S1", "S2"}

\* parsed body of the config response: json.data is absent, or holds the
\* routing URLs
NoData == [hasData |-> FALSE]
ConfigData(n) ==
    [hasData |-> TRUE,
     data |-> [paUrl |-> <<"pa", n>>, productSearchUrl |-> <<"ps", n>>,
               productTypesUrl |-> <<"pt", n>>, reportingUrl |-> <<"rp", n>>,
               tradingUrl |-> <<"tr", n>>, vwdQuotecastServiceUrl |-> <<"vwd", n>>]]
ConfigBodies == {NoData, ConfigData(1), ConfigData(2)}

\* parsed body of the client-info response
ClientData(acc, tok) ==
    [hasData |-> TRUE, data |-> [intAccount |-> acc, id |-> tok]]
ClientBodies == {NoData, ClientData("acc8", "tok8"), ClientData("acc9", "tok9")}

\* a routing URL that has not been fetched (null)
NoUrl == <<>>

\* session and urls as create() builds them
NewSession(sessionId, account) ==
    [id |-> sessionId, account |-> account, userToken |-> Null,
     clientInfo |-> Null, data |-> NoData]
NewUrls ==
    [paUrl |-> NoUrl, productSearchUrl |-> NoUrl, productTypesUrl |-> NoUrl,
     reportingUrl |-> NoUrl, tradingUrl |-> NoUrl, vwdQuotecastServiceUrl |-> NoUrl]

\* a response that has not arrived
NoResp == [outcome |-> "none"]

LoginIdle ==
    [pc |-> "idle", log |-> <<>>, error |-> "none",
     loginResp |-> NoResp, configResp |-> NoResp, clientResp |-> NoResp]

LoginInit ==
    /\ session \in {NewSession(i, a) : i \in InitialSessionIds, a \in InitialAccounts}
    /\ urls = NewUrls
    /\ otp \in OneTimePasswords
    /\ login = LoginIdle

\* checkSuccess, as a predicate on the exchange's outcome: it returns the body
\* exactly when res.ok
checkSuccessOk(outcome) == outcome = "ok"

\* the message of the Error that checkSuccess throws when res.ok is false
checkSuccessError(hasErrors) ==
    IF hasErrors THEN "json.errors[0].text" ELSE "status - statusText"

\* a login that only looks at the cookie and never at the status
LoginAcceptedCookieOnly(outcome, cookie) == Truthy(cookie)

\* sendLoginRequest's response handler goes on to updateConfig: checkSuccess
\* returned and session.id (the cookie) is truthy
LoginAccepted(outcome, cookie) == checkSuccessOk(outcome) /\ Truthy(cookie)

\* updateConfig with paUrl taken from the wrong field
ConfigUrlsSwapped(data) ==
    [paUrl |-> data.productSearchUrl, productSearchUrl |-> data.productSearchUrl,
     productTypesUrl |-> data.productTypesUrl, reportingUrl |-> data.reportingUrl,
     tradingUrl |-> data.tradingUrl,
     vwdQuotecastServiceUrl |-> data.vwdQuotecastServiceUrl]

\* the six assignments of updateConfig
ConfigUrls(data) ==
    [paUrl |-> data.paUrl, productSearchUrl |-> data.productSearchUrl,
     productTypesUrl |-> data.productTypesUrl, reportingUrl |-> data.reportingUrl,
     tradingUrl |-> data.tradingUrl,
     vwdQuotecastServiceUrl |-> data.vwdQuotecastServiceUrl]

\* getClientInfo that leaves session.account as create() set it
ClientInfoSessionKeepAccount(s, body) ==
    [s EXCEPT !.userToken = body.data.id, !.data = body]

\* the three assignments of getClientInfo (session.data holds the body's data;
\* NoData stands for a session.data that was never assigned)
ClientInfoSession(s, body) ==
    [s EXCEPT !.account = body.data.intAccount, !.userToken = body.data.id,
              !.data = body]

\* requests of the bootstrap, as sent
LoginReq(url) == [kind |-> "login", url |-> url, sid |-> Undefined]
ConfigReq(cookie) == [kind |-> "config", url |-> <<"config">>, sid |-> cookie]
ClientReq(paUrl, sid) == [kind |-> "client", url |-> paUrl, sid |-> sid]

\* login(): the POST to /login/secure/login, or .../totp with a one-time password
Login ==
    /\ login.pc \in {"idle", "resolved", "rejected"}
    /\ login' = [LoginIdle EXCEPT
                    !.pc = "login",
                    !.log = <<LoginReq(IF Truthy(otp) THEN <<"login", "totp">>
                                                      ELSE <<"login">>)>>]
    /\ UNCHANGED <<session, urls, otp>>
    /\ UNCHANGED notLogin

LoginReject(error) == login' = [login EXCEPT !.pc = "rejected", !.error = error]

\* completion of the login POST with session.id assigned only once
\* checkSuccess and the cookie check have passed
LoginResponseAssignLast(outcome, cookie, hasErrors) ==
    /\ login.pc = "login"
    /\ LET resp == [outcome |-> outcome, cookie |-> cookie, hasErrors |-> hasErrors]
       IN  IF outcome \in {"transport", "badjson"}
           THEN /\ login' = [login EXCEPT !.pc = "rejected", !.error = outcome,
                                          !.loginResp = [outcome |-> outcome]]
                /\ UNCHANGED session
           ELSE IF LoginAccepted(outcome, cookie)
           THEN /\ session' = [session EXCEPT !.id = cookie]
                /\ login' = [login EXCEPT
                                !.pc = "config", !.loginResp = resp,
                                !.log = Append(@, ConfigReq(cookie))]
           ELSE /\ UNCHANGED session
                /\ login' = [login EXCEPT
                                !.pc = "rejected", !.loginResp = resp,
                                !.error = IF checkSuccessOk(outcome)
                                          THEN "login nok"
                                          ELSE checkSuccessError(hasErrors)]
    /\ UNCHANGED <<urls, otp>>
    /\ UNCHANGED notLogin

\* completion of the login POST: session.id = cookies.JSESSIONID, checkSuccess,
\* the cookie check, then updateConfig sends the config GET
LoginResponse(outcome, cookie, hasErrors) ==
    /\ login.pc = "login"
    /\ LET resp == [outcome |-> outcome, cookie |-> cookie, hasErrors |-> hasErrors]
       IN  IF outcome \in {"transport", "badjson"}
           THEN /\ login' = [login EXCEPT !.pc = "rejected", !.error = outcome,
                                          !.loginResp = [outcome |-> outcome]]
                /\ UNCHANGED session
           ELSE /\ session' = [session EXCEPT !.id = cookie]
                /\ IF LoginAccepted(outcome, cookie)
                   THEN login' = [login EXCEPT
                                     !.pc = "config", !.loginResp = resp,
                                     !.log = Append(@, ConfigReq(session'.id))]
                   ELSE login' = [login EXCEPT
                                     !.pc = "rejected", !.loginResp = resp,
                                     !.error = IF checkSuccessOk(outcome)
                                               THEN "login nok"
                                               ELSE checkSuccessError(hasErrors)]
    /\ UNCHANGED <<urls, otp>>
    /\ UNCHANGED notLogin

\* completion of the config GET: checkSuccess, the six assignments, then
\* getClientInfo sends the client GET to urls.paUrl
ConfigResponse(outcome, body) ==
    /\ login.pc = "config"
    /\ IF checkSuccessOk(outcome) /\ body.hasData
       THEN /\ urls' = ConfigUrls(body.data)
            /\ login' = [login EXCEPT
                            !.pc = "client",
                            !.configResp = [outcome |-> outcome, body |-> body],
                            !.log = Append(@, ClientReq(urls'.paUrl, session.id))]
       ELSE /\ login' = [login EXCEPT
                            !.pc = "rejected",
                            !.configResp = [outcome |-> outcome, body |-> body],
                            !.error = IF checkSuccessOk(outcome) THEN "TypeError"
                                      ELSE outcome]
            /\ UNCHANGED urls
    /\ UNCHANGED <<session, otp>>
    /\ UNCHANGED notLogin

\* completion of the client GET: checkSuccess, the three assignments, then
\* login resolves with the session record
ClientResponse(outcome, body) ==
    /\ login.pc = "client"
    /\ IF checkSuccessOk(outcome) /\ body.hasData
       THEN /\ session' = ClientInfoSession(session, body)
            /\ login' = [login EXCEPT
                            !.pc = "resolved",
                            !.clientResp = [outcome |-> outcome, body |-> body]]
       ELSE /\ login' = [login EXCEPT
                            !.pc = "rejected",
                            !.clientResp = [outcome |-> outcome, body |-> body],
                            !.error = IF checkSuccessOk(outcome) THEN "TypeError"
                                      ELSE outcome]
            /\ UNCHANGED session
    /\ UNCHANGED <<urls, otp>>
    /\ UNCHANGED notLogin

(***************************************************************************)
(* Order pipeline: setOrder = checkOrder then confirmOrder, and deleteOrder.*)
(***************************************************************************)
TradeCalls == 1..NumTradeCalls

\* TimeTypes.day of ./constants, the default of setOrder's timeType
TimeTypesDay == "TimeTypes.day"

\* arguments of setOrder: timeType is optional
OrderArgs ==
    [buySell : {"BUY"}, orderType : {"LIMITED"}, productId : {"p1"},
     size : {5}, timeType : {Undefined, "TimeTypes.gtc"}, price : {100},
     stopPrice : {Undefined}]

\* the object setOrder hands to checkOrder, timeType defaulted
MakeOrder(args) ==
    [args EXCEPT !.timeType = IF @ = Undefined THEN TimeTypesDay ELSE @]

OrderIds == {"o1", "o2"}

\* parsed body of a checkOrder response: json.data is absent, or holds a
\* confirmationId (which may itself be absent)
CheckData(cid) == [hasData |-> TRUE, data |-> [confirmationId |-> cid]]
CheckBodies == {NoData, CheckData("cf1"), CheckData("cf2"), CheckData(Undefined)}

\* parsed body of a confirmOrder response
ConfirmData(oid) == [hasData |-> TRUE, data |-> [orderId |-> oid]]
ConfirmBodies == {NoData, ConfirmData("o1"), ConfirmData(Undefined)}

\* parsed body of a deleteOrder response
DeleteBody(status, statusText) == [status |-> status, statusText |-> statusText]
DeleteBodies ==
    {DeleteBody(0, "success"), DeleteBody(0, "pending"), DeleteBody(3, "success"),
     DeleteBody(3, "error")}

\* the body of an exchange that delivered none
NoDeleteBody == DeleteBody(-1, "none")

\* the parsed bodies an exchange with this outcome can hand to the chain: the
\* chain reads the body's content only after checkSuccess has returned it
BodiesFor(outcome, bodies, none) == IF outcome = "ok" THEN bodies ELSE {none}

\* the client after a successful login
LoggedIn ==
    /\ session = ClientInfoSession(NewSession("S1", "NaN"), ClientData("acc8", "tok8"))
    /\ urls = ConfigUrls(ConfigData(1).data)
    /\ otp = Undefined
    /\ login = [LoginIdle EXCEPT !.pc = "resolved"]

NoOrder == [buySell |-> Undefined]

TradeIdle ==
    [pc |-> "idle", op |-> "none", order |-> NoOrder, orderId |-> Undefined,
     log |-> <<>>, checkResp |-> NoResp, confirmResp |-> NoResp,
     deleteResp |-> NoResp, result |-> [kind |-> "none"], error |-> "none"]

TradeInit == trade = [c \in TradeCalls |-> TradeIdle]

\* requests of the order pipeline, as sent: the endpoint below tradingUrl,
\* its path parameter, the session and account parameters, the JSON body
TradeReq(method, endpoint, param, body) ==
    [method |-> method, base |-> urls.tradingUrl, endpoint |-> endpoint,
     param |-> param, sid |-> session.id, account |-> session.account,
     body |-> body]

\* a confirmation id read from the top of the body, where there is none
ConfirmationIdOfTopLevel(body) == Undefined

\* .then(json => ({order, confirmationId: json.data.confirmationId}))
ConfirmationIdOf(body) == body.data.confirmationId

\* .then(json => ({orderId: json.data.orderId}))
OrderIdOf(body) == body.data.orderId

\* what deleteOrder resolves with for a response that checkSuccess lets pass
DeleteResult(body) == [kind |-> "json", value |-> body]

\* setOrder(args): checkOrder POSTs the order to v5/checkOrder
SetOrder(c, args) ==
    /\ trade[c].pc = "idle"
    /\ LET order == MakeOrder(args)
       IN  trade' = [trade EXCEPT ![c] =
                        [@ EXCEPT !.pc = "check", !.op = "setOrder", !.order = order,
                                  !.log = <<TradeReq("POST", "checkOrder",
                                                     Undefined, order)>>]]
    /\ UNCHANGED notTrade

TradeReject(c, field, resp, error) ==
    trade' = [trade EXCEPT ![c] =
                 [@ EXCEPT !.pc = "rejected", ![field] = resp, !.error = error]]

\* completion of the checkOrder POST: checkSuccess, then confirmOrder POSTs
\* the same order to v5/order/<confirmationId>
CheckOrderResponse(c, outcome, body) ==
    /\ trade[c].pc = "check"
    /\ LET resp == [outcome |-> outcome, body |-> body]
       IN  IF ~checkSuccessOk(outcome)
           THEN TradeReject(c, "checkResp", resp, outcome)
           ELSE IF ~body.hasData
           THEN TradeReject(c, "checkResp", resp, "TypeError")
           ELSE trade' = [trade EXCEPT ![c] =
                    [@ EXCEPT !.pc = "confirm", !.checkResp = resp,
                              !.log = Append(@, TradeReq("POST", "order",
                                                         ConfirmationIdOf(body),
                                                         trade[c].order))]]
    /\ UNCHANGED notTrade

\* completion of the confirmOrder POST: setOrder resolves with {orderId}
ConfirmOrderResponse(c, outcome, body) ==
    /\ trade[c].pc = "confirm"
    /\ LET resp == [outcome |-> outcome, body |-> body]
       IN  IF ~checkSuccessOk(outcome)
           THEN TradeReject(c, "confirmResp", resp, outcome)
           ELSE IF ~body.hasData
           THEN TradeReject(c, "confirmResp", resp, "TypeError")
           ELSE trade' = [trade EXCEPT ![c] =
                    [@ EXCEPT !.pc = "resolved", !.confirmResp = resp,
                              !.result = [kind |-> "orderId",
                                          value |-> OrderIdOf(body)]]]
    /\ UNCHANGED notTrade

\* deleteOrder(orderId): the DELETE to v5/order/<orderId>
DeleteOrder(c, orderId) ==
    /\ trade[c].pc = "idle"
    /\ trade' = [trade EXCEPT ![c] =
                    [@ EXCEPT !.pc = "delete", !.op = "deleteOrder",
                              !.orderId = orderId,
                              !.log = <<TradeReq("DELETE", "order", orderId,
                                                 NoOrder)>>]]
    /\ UNCHANGED notTrade

\* completion of the DELETE: res.json(), then checkSuccess and nothing else
DeleteOrderResponse(c, outcome, body) ==
    /\ trade[c].pc = "delete"
    /\ LET resp == [outcome |-> outcome, body |-> body]
       IN  IF ~checkSuccessOk(outcome)
           THEN TradeReject(c, "deleteResp", resp, outcome)
           ELSE trade' = [trade EXCEPT ![c] =
                    [@ EXCEPT !.pc = "resolved", !.deleteResp = resp,
                              !.result = DeleteResult(body)]]
    /\ UNCHANGED notTrade

(***************************************************************************)
(* Data fetchers: getData and getCashFunds.                                *)
(***************************************************************************)
\* sequences over S of length at most n
SeqsUpTo(S, n) == UNION {[1..k -> S] : k \in 0..n}

\* names of the pairs of a currency entry
PairNames == {"handling", "currencyCode", "id"}

\* the pairs [{name, value}, ...] of one currency entry: the k-th pair carries
\* the value 10 * k, so that pairs of one name differ in value
EntryOf(names) == [k \in DOMAIN names |-> [name |-> names[k], value |-> 10 * k]]
Entries == {EntryOf(names) : names \in SeqsUpTo(PairNames, MaxPairs)}

\* parsed body of the getData response: data.cashFunds is absent, or its
\* value is no array, or its value is a list of entries {value: [pairs]}
CashBody(present, isArray, entries) ==
    [hasCashFunds |-> present, isArray |-> isArray, value |-> entries]
CashBodies ==
    {CashBody(FALSE, FALSE, <<>>), CashBody(TRUE, FALSE, <<>>)}
        \cup {CashBody(TRUE, TRUE, es) : es \in SeqsUpTo(Entries, MaxEntries)}
NoCashBody == CashBody(FALSE, FALSE, <<>>)

\* lodash fromPairs: result[name] = value for each pair in turn
RECURSIVE fromPairs(_)
fromPairs(pairs) ==
    IF pairs = <<>> THEN <<>>
    ELSE LET last == pairs[Len(pairs)]
         IN  SetProp(fromPairs(SubSeq(pairs, 1, Len(pairs) - 1)), last.name, last.value)

\* lodash omit that drops only the first of the paths
omitFirstOnly(obj, paths) == [k \in DOMAIN obj \ {paths[1]} |-> obj[k]]

\* lodash omit: a copy of obj without the properties named in paths
omit(obj, paths) ==
    [k \in DOMAIN obj \ {paths[i] : i \in DOMAIN paths} |-> obj[k]]

\* data.cashFunds.value.map(({value}) => omit(fromPairs(...), [...]))
MapCashFunds(entries) ==
    [i \in DOMAIN entries |-> omit(fromPairs(entries[i]), <<"handling", "currencyCode">>)]

\* data.cashFunds && Array.isArray(data.cashFunds.value)
CashShapeOk(data) == data.hasCashFunds /\ data.isArray

\* the GET of getData: urls.tradingUrl, session.account, session.id and the
\* query options
GetDataReq(options) ==
    [method |-> "GET", base |-> urls.tradingUrl, endpoint |-> "update",
     account |-> session.account, sid |-> session.id, options |-> options]

CashIdle ==
    [pc |-> "idle", log |-> <<>>, resp |-> NoResp, result |-> <<>>, error |-> "none"]

CashInit == cash = CashIdle

\* getCashFunds(): getData({cashFunds: 0}) sends the GET
GetCashFunds ==
    /\ cash.pc \in {"idle", "resolved", "rejected"}
    /\ cash' = [CashIdle EXCEPT !.pc = "pending",
                                !.log = <<GetDataReq(<<"cashFunds">>)>>]
    /\ UNCHANGED notCash

\* completion of the GET: res.json(), checkSuccess, the shape test, the map
CashFundsThen(outcome, data) ==
    /\ cash.pc = "pending"
    /\ LET resp == [outcome |-> outcome, body |-> data]
       IN  IF ~checkSuccessOk(outcome)
           THEN cash' = [cash EXCEPT !.pc = "rejected", !.resp = resp,
                                     !.error = outcome]
           ELSE IF ~CashShapeOk(data)
           THEN cash' = [cash EXCEPT !.pc = "rejected", !.resp = resp,
                                     !.error = "Bad result"]
           ELSE cash' = [cash EXCEPT !.pc = "resolved", !.resp = resp,
                                     !.result = MapCashFunds(data.value)]
    /\ UNCHANGED notCash

\* the GET completes, with some outcome and body
CashFundsResponse ==
    /\ cash.pc = "pending"
    /\ \E outcome \in Outcomes :
           \E data \in BodiesFor(outcome, CashBodies, NoCashBody) :
               CashFundsThen(outcome, data)

(***************************************************************************)
(* getOrders and the dates of order records.                               *)
(***************************************************************************)
\* a JavaScript Date, by its local-time fields (month is 0-based, as getMonth)
DateOf(y, m, d, hh, mm, ss, ms) ==
    [year |-> y, month |-> m, date |-> d, hours |-> hh, minutes |-> mm,
     seconds |-> ss, ms |-> ms]
NoDate == DateOf(0, 0, 0, 0, 0, 0, 0)

\* the moments new Date() may return while a response is processed
Nows == {DateOf(y, m, 15, 10, 20, 30, 400) : y \in {1999, 2026}, m \in 0..11}

IsLeapYear(y) == (y % 4 = 0 /\ y % 100 # 0) \/ y % 400 = 0
DaysInMonth(y, m) ==
    IF m = 1 THEN (IF IsLeapYear(y) THEN 29 ELSE 28)
    ELSE IF m \in {3, 5, 8, 10} THEN 30 ELSE 31

\* MakeDay of ECMAScript: a year, a month index and a day of the month, each
\* possibly out of range, as a calendar day
RECURSIVE MakeDay(_, _, _)
MakeDay(y, m, d) ==
    IF m > 11 THEN MakeDay(y + 1, m - 12, d)
    ELSE IF m < 0 THEN MakeDay(y - 1, m + 12, d)
    ELSE IF d > DaysInMonth(y, m) THEN MakeDay(y, m + 1, d - DaysInMonth(y, m))
    ELSE IF d < 1
    THEN (IF m = 0 THEN MakeDay(y - 1, 11, d + 31)
          ELSE MakeDay(y, m - 1, d + DaysInMonth(y, m - 1)))
    ELSE [year |-> y, month |-> m, date |-> d]

\* new Date(year, month, day) in local time: a year 0..99 means 1900 + year
NewDate(year, month, day) ==
    LET full == IF year >= 0 /\ year <= 99 THEN 1900 + year ELSE year
        day0 == MakeDay(full, month, day)
    IN  DateOf(day0.year, day0.month, day0.date, 0, 0, 0, 0)

getMonth(d) == d.month
\* Date.prototype.getYear: the year minus 1900
getYear(d) == d.year - 1900

\* Date.prototype.setHours(h), setMinutes(m), setSeconds(s), setMilliseconds(ms)
\* for arguments >= 0; an argument beyond its range carries into the next field
setHours(d, h) ==
    LET day0 == MakeDay(d.year, d.month, d.date + (h \div 24))
    IN  [d EXCEPT !.year = day0.year, !.month = day0.month, !.date = day0.date,
                  !.hours = h % 24]
setMinutes(d, m) == [setHours(d, d.hours + (m \div 60)) EXCEPT !.minutes = m % 60]
setSeconds(d, sec) == [setMinutes(d, d.minutes + (sec \div 60)) EXCEPT !.seconds = sec % 60]
setMilliseconds(d, ms) ==
    [setSeconds(d, d.seconds + (ms \div 1000)) EXCEPT !.ms = ms % 1000]

\* the decimal digits, and the digit a character stands for
DigitChars == <<"0", "1", "2", "3", "4", "5", "6", "7", "8", "9">>
DigitVal(c) == (CHOOSE i \in DOMAIN DigitChars : DigitChars[i] = c) - 1

\* ToNumber of a string of decimal digits ("" is 0), the coercion that
\* setHours(text), new Date(.., text, text) and number < text apply
RECURSIVE ToNumber(_)
ToNumber(str) ==
    IF str = <<>> THEN 0
    ELSE ToNumber(SubSeq(str, 1, Len(str) - 1)) * 10 + DigitVal(str[Len(str)])

\* String.prototype.includes for a one-character pattern
includes(str, c) == \E i \in DOMAIN str : str[i] = c

\* String.prototype.split for a one-character separator
RECURSIVE split(_, _)
split(str, c) ==
    IF ~includes(str, c) THEN <<str>>
    ELSE LET i == CHOOSE k \in DOMAIN str :
                      str[k] = c /\ \A j \in 1..(k - 1) : str[j] # c
         IN  <<SubSeq(str, 1, i - 1)>> \o split(SubSeq(str, i + 1, Len(str)), c)

\* the date of a bare time that forgets setSeconds(0)
OrderTimeKeepSeconds(now, value) ==
    setMilliseconds(
        setMinutes(setHours(now, ToNumber(split(value, ":")[1])),
                   ToNumber(split(value, ":")[2])), 0)

\* the date of a bare time "HH:MM": new Date(), setHours, setMinutes,
\* setSeconds(0), setMilliseconds(0)
OrderTime(now, value) ==
    setMilliseconds(
        setSeconds(
            setMinutes(setHours(now, ToNumber(split(value, ":")[1])),
                       ToNumber(split(value, ":")[2])), 0), 0)

\* the date of a day/month pair "DD/MM": new Date(year, month, day) with the
\* year chosen by currentDate.getMonth() < month
OrderDay(now, value) ==
    LET month == split(value, "/")[2]
    IN  NewDate(IF getMonth(now) < ToNumber(month) THEN getYear(now) - 1
                                                  ELSE getYear(now),
                ToNumber(month), ToNumber(split(value, "/")[1]))

\* the branches on orderRow.value of a row named 'date'
DateFormat(value) ==
    IF includes(value, ":") THEN "time"
    ELSE IF includes(value, "/") THEN "day" ELSE "unexpected"

OrderDateOf(now, value) ==
    IF DateFormat(value) = "time" THEN OrderTime(now, value) ELSE OrderDay(now, value)

\* rows {name, value} and order records {id, value: [rows]} of the vendor
Row(name, value) == [name |-> name, value |-> value]
OrderRecord(id, rows) == [id |-> id, value |-> rows]

\* one row of order.value.forEach that skips a 'date' row of an unexpected
\* format instead of throwing
ProcessOrderRowSkipUnexpected(now, acc, row) ==
    IF row.name = "date"
    THEN IF DateFormat(row.value) = "unexpected" THEN acc
         ELSE [acc EXCEPT !.o = SetProp(@, "date", OrderDateOf(now, row.value))]
    ELSE [acc EXCEPT !.o = SetProp(@, row.name, row.value)]

\* one row of order.value.forEach: one property of o per row; a 'date' row
\* of an unexpected format throws
ProcessOrderRow(now, acc, row) ==
    IF row.name = "date"
    THEN IF DateFormat(row.value) = "unexpected"
         THEN [ok |-> FALSE, o |-> acc.o, bad |-> row.value]
         ELSE [acc EXCEPT !.o = SetProp(@, "date", OrderDateOf(now, row.value))]
    ELSE [acc EXCEPT !.o = SetProp(@, row.name, row.value)]

\* one order record through order.value.forEach: o = {id}, then its rows in
\* order, up to the first throw
RECURSIVE ProcessOrderRows(_, _, _)
ProcessOrderRows(now, acc, rows) ==
    IF rows = <<>> \/ ~acc.ok THEN acc
    ELSE ProcessOrderRows(now, ProcessOrderRow(now, acc, Head(rows)), Tail(rows))

\* processOrders(orders): the records in input order, or the first throw
RECURSIVE processOrders(_, _)
processOrders(now, list) ==
    IF list = <<>> THEN [ok |-> TRUE, res |-> <<>>, bad |-> <<>>]
    ELSE LET first == ProcessOrderRows(now,
                          [ok |-> TRUE, o |-> [id |-> Head(list).id], bad |-> <<>>],
                          Head(list).value)
             rest == processOrders(now, Tail(list))
         IN  IF ~first.ok THEN [ok |-> FALSE, res |-> <<>>, bad |-> first.bad]
             ELSE IF ~rest.ok THEN rest
             ELSE [ok |-> TRUE, res |-> <<first.o>> \o rest.res, bad |-> <<>>]

\* two decimal digits, as the vendor writes hours, minutes, days and months
TwoDigits(n) == <<DigitChars[(n \div 10) + 1], DigitChars[(n % 10) + 1]>>
TimeText(hh, mm) == TwoDigits(hh) \o <<":">> \o TwoDigits(mm)
DayText(dd, mm) == TwoDigits(dd) \o <<"/">> \o TwoDigits(mm)

\* date texts of the vendor: every bare time, days of every month, and a
\* text of neither format
TimeTexts == {TimeText(hh, mm) : hh \in 0..23, mm \in 0..59}
DayTexts == {DayText(dd, mm) : dd \in {1, 15, 28}, mm \in 1..12}
BadTexts == {<<"n", "o", "w">>}
DateTexts == TimeTexts \cup DayTexts \cup BadTexts

\* parsed body of the getOrders response: each of data.orders,
\* data.historicalOrders, data.transactions is present with an array value,
\* or not
OrdersBody(ok1, ok2, ok3, l1, l2, l3) ==
    [ordersOk |-> ok1, historicalOk |-> ok2, transactionsOk |-> ok3,
     orders |-> l1, historicalOrders |-> l2, transactions |-> l3]
\* a well-shaped body whose records carry the date text
OrdersBodyWith(text) ==
    OrdersBody(TRUE, TRUE, TRUE,
               <<OrderRecord("o1", <<Row("date", text), Row("size", <<"5">>)>>)>>,
               <<OrderRecord("o2", <<Row("size", <<"7">>), Row("date", text)>>)>>,
               <<>>)
\* well-shaped bodies with several records in a list, records without a date
\* row, a row named 'id', and texts of neither format in more than one list
OrdersBodiesMixed ==
    {OrdersBody(TRUE, TRUE, TRUE,
                <<OrderRecord("o1", <<Row("date", DayText(15, 1)),
                                      Row("id", "x9")>>),
                  OrderRecord("o3", <<Row("size", <<"5">>)>>)>>,
                <<>>,
                <<OrderRecord("o2", <<Row("date", TimeText(14, 30))>>)>>),
     OrdersBody(TRUE, TRUE, TRUE,
                <<OrderRecord("o1", <<Row("size", <<"5">>),
                                      Row("date", TimeText(14, 30))>>),
                  OrderRecord("o3", <<Row("date", <<"n", "o", "w">>)>>)>>,
                <<OrderRecord("o2", <<Row("date", <<"s", "o", "o", "n">>)>>)>>,
                <<>>),
     OrdersBody(TRUE, TRUE, TRUE,
                <<OrderRecord("o1", <<Row("size", <<"5">>)>>)>>,
                <<OrderRecord("o2", <<Row("date", TimeText(14, 30))>>)>>,
                <<OrderRecord("o4", <<Row("size", <<"7">>),
                                      Row("date", <<"s", "o", "o", "n">>)>>)>>)}
OrdersBodies ==
    {OrdersBody(FALSE, TRUE, TRUE, <<>>, <<>>, <<>>),
     OrdersBody(TRUE, TRUE, FALSE, <<>>, <<>>, <<>>)}
        \cup {OrdersBodyWith(text) : text \in DateTexts}
        \cup OrdersBodiesMixed
NoOrdersBody == OrdersBody(FALSE, FALSE, FALSE, <<>>, <<>>, <<>>)

\* the shape test of getOrders
OrdersShapeOk(data) == data.ordersOk /\ data.historicalOk /\ data.transactionsOk

NoOrdersResult ==
    [openOrders |-> <<>>, cancelledOrders |-> <<>>, completedOrders |-> <<>>]

OrdersIdle ==
    [pc |-> "idle", log |-> <<>>, now |-> NoDate, resp |-> NoResp,
     result |-> NoOrdersResult, error |-> "none", bad |-> <<>>]

OrdersInit == orders = OrdersIdle

\* getOrders(): getData({orders: 0, historicalOrders: 0, transactions: 0})
GetOrders ==
    /\ orders.pc \in {"idle", "resolved", "rejected"}
    /\ orders' = [OrdersIdle EXCEPT
                     !.pc = "pending",
                     !.log = <<GetDataReq(<<"orders", "historicalOrders",
                                            "transactions">>)>>]
    /\ UNCHANGED notOrders

\* completion of the GET at the moment now: res.json(), checkSuccess, the
\* shape test, processOrders on the three lists
GetOrdersThen(outcome, data, now) ==
    /\ orders.pc = "pending"
    /\ LET resp == [outcome |-> outcome, body |-> data]
           open == processOrders(now, data.orders)
           cancelled == processOrders(now, data.historicalOrders)
           completed == processOrders(now, data.transactions)
       IN  IF ~checkSuccessOk(outcome)
           THEN orders' = [orders EXCEPT !.pc = "rejected", !.resp = resp,
                                         !.now = now, !.error = outcome]
           ELSE IF ~OrdersShapeOk(data)
           THEN orders' = [orders EXCEPT !.pc = "rejected", !.resp = resp,
                                         !.now = now, !.error = "Bad result"]
           ELSE IF ~(open.ok /\ cancelled.ok /\ completed.ok)
           THEN orders' = [orders EXCEPT
                              !.pc = "rejected", !.resp = resp, !.now = now,
                              !.error = "Unexpected date format",
                              !.bad = IF ~open.ok THEN open.bad
                                      ELSE IF ~cancelled.ok THEN cancelled.bad
                                      ELSE completed.bad]
           ELSE orders' = [orders EXCEPT
                              !.pc = "resolved", !.resp = resp, !.now = now,
                              !.result = [openOrders |-> open.res,
                                          cancelledOrders |-> cancelled.res,
                                          completedOrders |-> completed.res]]
    /\ UNCHANGED notOrders

\* the GET completes, with some outcome and body, at some moment
GetOrdersResponse ==
    /\ orders.pc = "pending"
    /\ \E outcome \in Outcomes, now \in Nows :
           \E data \in BodiesFor(outcome, OrdersBodies, NoOrdersBody) :
               GetOrdersThen(outcome, data, now)

(***************************************************************************)
(* The operations of one HTTP exchange: getData, getPortfolio, getTasks,   *)
(* getOrdersHistory, getTransactions, searchProduct, getProductsByIds,     *)
(* getClientInfo and updateConfig, each called on its own.                 *)
(***************************************************************************)
\* the operations whose chain is fetch, res.json(), checkSuccess and no more
PlainOps ==
    {"getData", "getTasks", "getOrdersHistory", "getTransactions",
     "searchProduct", "getProductsByIds"}
FetcherOps == PlainOps \cup {"getPortfolio", "getClientInfo", "updateConfig"}

\* parsed body of a response, by the top-level key the caller expects
\* (portfolio for getPortfolio, data for the others): absent, present with a
\* value that is no array, or present with an array value
\* isObject: the parsed JSON is an object (not null, a number or a string);
\* hasErrors: 'errors' in json; errors: json.errors
Json(isObject, hasErrors, errors, present, isArray) ==
    [isObject |-> isObject, hasErrors |-> hasErrors, errors |-> errors,
     present |-> present, isArray |-> isArray]
Payload(present, isArray) == Json(TRUE, FALSE, <<>>, present, isArray)
VendorErrors == <<[text |-> "e1"], [text |-> "e2"]>>
Payloads ==
    {Payload(FALSE, FALSE), Payload(TRUE, FALSE), Payload(TRUE, TRUE),
     Json(TRUE, TRUE, VendorErrors, TRUE, TRUE)}
NoPayload == Payload(FALSE, FALSE)

\* parsed bodies of responses with a non-success status: an object without
\* errors, with an errors list, with an empty errors list, and JSON null
ErrorBodies ==
    {Payload(FALSE, FALSE), Json(TRUE, TRUE, VendorErrors, FALSE, FALSE),
     Json(TRUE, TRUE, <<>>, FALSE, FALSE), Json(FALSE, FALSE, <<>>, FALSE, FALSE)}

\* res.ok, res.status and res.statusText of a response
OkStatus == [ok |-> TRUE, status |-> "200", statusText |-> "OK"]
ErrorStatuses ==
    {[ok |-> FALSE, status |-> "401", statusText |-> "Unauthorized"],
     [ok |-> FALSE, status |-> "500", statusText |-> "Internal Server Error"]}
\* the response head and the parsed bodies that go with an outcome
StatusesFor(outcome) == IF outcome = "httperr" THEN ErrorStatuses ELSE {OkStatus}
PayloadsFor(outcome) ==
    IF outcome = "ok" THEN Payloads
    ELSE IF outcome = "httperr" THEN ErrorBodies ELSE {NoPayload}

\* checkSuccess(res, json): throws unless res.ok, else returns json;
\* 'errors' in json throws a TypeError when json is no object, and
\* json.errors[0].text throws one when the list is empty
checkSuccess(res, json) ==
    IF ~res.ok
    THEN IF ~json.isObject
         THEN [threw |-> TRUE, message |-> <<"TypeError">>, value |-> NoPayload]
         ELSE IF json.hasErrors
         THEN IF json.errors = <<>>
              THEN [threw |-> TRUE, message |-> <<"TypeError">>, value |-> NoPayload]
              ELSE [threw |-> TRUE, message |-> <<json.errors[1].text>>,
                    value |-> NoPayload]
         ELSE [threw |-> TRUE, message |-> <<res.status, " - ", res.statusText>>,
               value |-> NoPayload]
    ELSE [threw |-> FALSE, message |-> <<>>, value |-> json]

\* data.portfolio && Array.isArray(data.portfolio.value)
PortfolioShapeOk(data) == data.present /\ data.isArray

\* the request of each operation: method, the routing URL it is built on,
\* and the session fields in its query
FetcherReq(op) ==
    CASE op = "getData" ->
             [method |-> "GET", base |-> urls.tradingUrl, endpoint |-> "update",
              account |-> session.account, sid |-> session.id]
      [] op = "getPortfolio" ->
             [method |-> "GET", base |-> urls.tradingUrl, endpoint |-> "update",
              account |-> session.account, sid |-> session.id]
      [] op = "getTasks" ->
             [method |-> "GET", base |-> urls.paUrl, endpoint |-> "clienttasks",
              account |-> session.account, sid |-> session.id]
      [] op = "getOrdersHistory" ->
             [method |-> "GET", base |-> urls.reportingUrl,
              endpoint |-> "order-history",
              account |-> session.account, sid |-> session.id]
      [] op = "getTransactions" ->
             [method |-> "GET", base |-> urls.reportingUrl,
              endpoint |-> "transactions",
              account |-> session.account, sid |-> session.id]
      [] op = "searchProduct" ->
             [method |-> "GET", base |-> urls.productSearchUrl,
              endpoint |-> "products/lookup",
              account |-> session.account, sid |-> session.id]
      [] op = "getProductsByIds" ->
             [method |-> "POST", base |-> urls.productSearchUrl,
              endpoint |-> "products/info",
              account |-> session.account, sid |-> session.id]
      [] op = "getClientInfo" ->
             [method |-> "GET", base |-> urls.paUrl, endpoint |-> "client",
              account |-> Undefined, sid |-> session.id]
      [] op = "updateConfig" ->
             [method |-> "GET", base |-> <<"config">>, endpoint |-> "config",
              account |-> Undefined, sid |-> session.id]

FetcherIdle ==
    [pc |-> "idle", op |-> "none", log |-> <<>>, resp |-> NoResp,
     result |-> NoPayload, error |-> "none", message |-> <<>>]

FetcherInit == fetcher = FetcherIdle

\* a call of one of the operations: it sends its request
Fetch(op) ==
    /\ fetcher.pc \in {"idle", "resolved", "rejected"}
    /\ fetcher' = [FetcherIdle EXCEPT !.pc = "pending", !.op = op,
                                      !.log = <<FetcherReq(op)>>]
    /\ UNCHANGED <<session, urls>>
    /\ UNCHANGED notFetcher

\* the chain rejects: fetch or res.json() rejected, or checkSuccess threw
FetcherReject(resp, error) ==
    fetcher' = [fetcher EXCEPT !.pc = "rejected", !.resp = resp, !.error = error]

\* completion of getData, getTasks, getOrdersHistory, getTransactions,
\* searchProduct or getProductsByIds: res.json(), then checkSuccess throws
\* or returns the parsed body
PlainResponse(outcome, res, data) ==
    /\ fetcher.pc = "pending"
    /\ fetcher.op \in PlainOps
    /\ LET resp == [outcome |-> outcome, body |-> data, res |-> res]
           checked == checkSuccess(res, data)
       IN  IF outcome \in {"transport", "badjson"} THEN FetcherReject(resp, outcome)
           ELSE IF checked.threw
           THEN fetcher' = [fetcher EXCEPT !.pc = "rejected", !.resp = resp,
                                           !.error = outcome,
                                           !.message = checked.message]
           ELSE fetcher' = [fetcher EXCEPT !.pc = "resolved", !.resp = resp,
                                           !.result = checked.value]
    /\ UNCHANGED <<session, urls>>
    /\ UNCHANGED notFetcher

\* completion of getPortfolio: getData, then the shape test
PortfolioResponse(outcome, data) ==
    /\ fetcher.pc = "pending"
    /\ fetcher.op = "getPortfolio"
    /\ LET resp == [outcome |-> outcome, body |-> data]
       IN  IF ~checkSuccessOk(outcome) THEN FetcherReject(resp, outcome)
           ELSE IF ~PortfolioShapeOk(data) THEN FetcherReject(resp, "Bad result")
           ELSE fetcher' = [fetcher EXCEPT !.pc = "resolved", !.resp = resp,
                                           !.result = data]
    /\ UNCHANGED <<session, urls>>
    /\ UNCHANGED notFetcher

\* completion of getClientInfo: checkSuccess, then the three assignments to
\* session; reading json.data.intAccount of a body without data throws
GetClientInfoResponse(outcome, body) ==
    /\ fetcher.pc = "pending"
    /\ fetcher.op = "getClientInfo"
    /\ LET resp == [outcome |-> outcome, body |-> body]
       IN  IF ~checkSuccessOk(outcome)
           THEN FetcherReject(resp, outcome) /\ UNCHANGED session
           ELSE IF ~body.hasData
           THEN FetcherReject(resp, "TypeError") /\ UNCHANGED session
           ELSE /\ session' = ClientInfoSession(session, body)
                /\ fetcher' = [fetcher EXCEPT !.pc = "resolved", !.resp = resp,
                                               !.result = Payload(TRUE, FALSE)]
    /\ UNCHANGED urls
    /\ UNCHANGED notFetcher

\* completion of updateConfig: checkSuccess, then the six assignments to urls
UpdateConfigResponse(outcome, body) ==
    /\ fetcher.pc = "pending"
    /\ fetcher.op = "updateConfig"
    /\ LET resp == [outcome |-> outcome, body |-> body]
       IN  IF ~checkSuccessOk(outcome)
           THEN FetcherReject(resp, outcome) /\ UNCHANGED urls
           ELSE IF ~body.hasData
           THEN FetcherReject(resp, "TypeError") /\ UNCHANGED urls
           ELSE /\ urls' = ConfigUrls(body.data)
                /\ fetcher' = [fetcher EXCEPT !.pc = "resolved", !.resp = resp]
    /\ UNCHANGED session
    /\ UNCHANGED notFetcher

(***************************************************************************)
(* Specifications.                                                         *)
(***************************************************************************)
\* the client before login, no quote call made
LoginRest ==
    /\ session = NewSession(Undefined, "NaN")
    /\ urls = NewUrls
    /\ otp = Undefined
    /\ login = LoginIdle

\* the quote poller on its own
InitQuote ==
    QuoteInit /\ LoginRest /\ TradeInit /\ CashInit /\ OrdersInit /\ FetcherInit
NextQuote ==
    \/ \E c \in QuoteCalls, issueId \in IssueIds : GetAskBidPrice(c, issueId)
    \/ \E c \in QuoteCalls, outcome \in Outcomes : SessionResponse(c, outcome)
    \/ \E c \in QuoteCalls, outcome \in Outcomes : SubscribeResponse(c, outcome)
    \/ \E c \in QuoteCalls, outcome \in Outcomes :
           \E res \in BodiesFor(outcome, PollBodies, NotArray) :
               PollResponse(c, outcome, res)
SpecQuote == InitQuote /\ [][NextQuote]_vars

\* the quote poller when every HTTP request it issues eventually completes
\* (fetch and res.json() settle): each pending exchange of each call is
\* answered. Termination is a property of each call on its own, so two
\* callers are enough to interleave.
LiveCalls == {c \in QuoteCalls : c <= 2}
NextQuoteLive ==
    \/ \E c \in LiveCalls, issueId \in IssueIds : GetAskBidPrice(c, issueId)
    \/ \E c \in LiveCalls, outcome \in Outcomes : SessionResponse(c, outcome)
    \/ \E c \in LiveCalls, outcome \in Outcomes : SubscribeResponse(c, outcome)
    \/ \E c \in LiveCalls, outcome \in Outcomes :
           \E res \in BodiesFor(outcome, PollBodies, NotArray) :
               PollResponse(c, outcome, res)
QuoteFairness ==
    \A c \in LiveCalls :
        /\ WF_vars(\E outcome \in Outcomes : SessionResponse(c, outcome))
        /\ WF_vars(\E outcome \in Outcomes : SubscribeResponse(c, outcome))
        /\ WF_vars(\E outcome \in Outcomes :
                       \E res \in BodiesFor(outcome, PollBodies, NotArray) :
                           PollResponse(c, outcome, res))
SpecQuoteLive == InitQuote /\ [][NextQuoteLive]_vars /\ QuoteFairness

\* the bootstrap on its own
InitLogin ==
    LoginInit /\ QuoteInit /\ TradeInit /\ CashInit /\ OrdersInit /\ FetcherInit
NextLogin ==
    \/ Login
    \/ \E outcome \in Outcomes, cookie \in Cookies, hasErrors \in BOOLEAN :
           LoginResponse(outcome, cookie, hasErrors)
    \/ \E outcome \in Outcomes, body \in ConfigBodies : ConfigResponse(outcome, body)
    \/ \E outcome \in Outcomes, body \in ClientBodies : ClientResponse(outcome, body)
SpecLogin == InitLogin /\ [][NextLogin]_vars

\* the order pipeline of a logged-in client
InitTrade ==
    TradeInit /\ LoggedIn /\ QuoteInit /\ CashInit /\ OrdersInit /\ FetcherInit
NextTrade ==
    \/ \E c \in TradeCalls, args \in OrderArgs : SetOrder(c, args)
    \/ \E c \in TradeCalls, outcome \in Outcomes :
           \E body \in BodiesFor(outcome, CheckBodies, NoData) :
               CheckOrderResponse(c, outcome, body)
    \/ \E c \in TradeCalls, outcome \in Outcomes :
           \E body \in BodiesFor(outcome, ConfirmBodies, NoData) :
               ConfirmOrderResponse(c, outcome, body)
    \/ \E c \in TradeCalls, orderId \in OrderIds : DeleteOrder(c, orderId)
    \/ \E c \in TradeCalls, outcome \in Outcomes :
           \E body \in BodiesFor(outcome, DeleteBodies, NoDeleteBody) :
               DeleteOrderResponse(c, outcome, body)
SpecTrade == InitTrade /\ [][NextTrade]_vars

\* getCashFunds of a logged-in client
InitCash ==
    CashInit /\ LoggedIn /\ QuoteInit /\ TradeInit /\ OrdersInit /\ FetcherInit
NextCash ==
    \/ GetCashFunds
    \/ CashFundsResponse
SpecCash == InitCash /\ [][NextCash]_vars

\* getOrders of a logged-in client
InitOrders ==
    OrdersInit /\ LoggedIn /\ QuoteInit /\ TradeInit /\ CashInit /\ FetcherInit
NextOrders ==
    \/ GetOrders
    \/ GetOrdersResponse
SpecOrders == InitOrders /\ [][NextOrders]_vars

\* the one-exchange operations of a logged-in client
InitFetcher ==
    FetcherInit /\ LoggedIn /\ QuoteInit /\ TradeInit /\ CashInit /\ OrdersInit
NextFetcher ==
    \/ \E op \in FetcherOps : Fetch(op)
    \/ \E outcome \in Outcomes :
           \E res \in StatusesFor(outcome), data \in PayloadsFor(outcome) :
               PlainResponse(outcome, res, data)
    \/ \E outcome \in Outcomes :
           \E data \in BodiesFor(outcome, Payloads, NoPayload) :
               PortfolioResponse(outcome, data)
    \/ \E outcome \in Outcomes :
           \E body \in BodiesFor(outcome, ClientBodies, NoData) :
               GetClientInfoResponse(outcome, body)
    \/ \E outcome \in Outcomes :
           \E body \in BodiesFor(outcome, ConfigBodies, NoData) :
               UpdateConfigResponse(outcome, body)
SpecFetcher == InitFetcher /\ [][NextFetcher]_vars

(***************************************************************************)
(* Claims about the quote poller (SpecQuote).                              *)
(***************************************************************************)
AllHeartbeats(polled) == \A i \in DOMAIN polled : polled[i] = Heartbeat

\* C1: a getAskBidPrice call makes at most 3 poll attempts: when every poll
\* is answered by a lone heartbeat row, the call rejects with the timeout
\* error after the 3rd heartbeat, and no 4th session request, subscribe or
\* poll is issued.
C1_AtMostThreeAttempts ==
    \A c \in QuoteCalls :
        /\ Count(quote[c].log, "session") <= 3
        /\ Count(quote[c].log, "subscribe") <= 3
        /\ Count(quote[c].log, "poll") <= 3
        /\ (Len(quote[c].polled) = 3 /\ AllHeartbeats(quote[c].polled))
               => (quote[c].pc = "rejected" /\ quote[c].error = "Tried 3 times")

\* the price maps the vendor's data-bearing bodies stand for
C2_Expected(res) ==
    CASE res = DataA -> (<<"b", "i", "d">> :> 10) @@ (<<"a", "s", "k">> :> 11)
      [] res = DataB -> (<<"b", "i", "d">> :> 21)

\* C2: when the first poll of a call returns a lone heartbeat row and the
\* second poll returns data-bearing rows, the call resolves, and the price
\* map is the one of the second response, polled on the second session.
C2_SecondResponseOnly ==
    \A c \in QuoteCalls :
        (/\ Len(quote[c].polled) = 2
         /\ quote[c].polled[1] = Heartbeat
         /\ quote[c].polled[2] \in {DataA, DataB})
            => /\ quote[c].pc = "resolved"
               /\ quote[c].result = C2_Expected(quote[c].polled[2])
               /\ Count(quote[c].log, "poll") = 2
               /\ quote[c].log[Len(quote[c].log)] = Req("poll", FreshSid(c, 2))

C2_Witness ==
    \E c \in QuoteCalls :
        /\ quote[c].pc = "resolved"
        /\ quote[c].polled = <<Heartbeat, DataB>>
        /\ quote[c].result = (<<"b", "i", "d">> :> 21)

(***************************************************************************)
(* Claims about the bootstrap (SpecLogin).                                 *)
(***************************************************************************)
\* the login response arrived and was parsed
LoginParsed == login.loginResp.outcome \in {"httperr", "ok"}
Sent(kind) == \E i \in DOMAIN login.log : login.log[i].kind = kind

\* C3: whenever login resolves, session.id is non-empty and is the
\* JSESSIONID cookie of the login response, and session.account is the
\* intAccount of the client-info response, whatever account create() got.
C3_ResolvedSession ==
    login.pc = "resolved"
        => /\ session.id # Undefined
           /\ session.id # ""
           /\ session.id = login.loginResp.cookie
           /\ session.account = login.clientResp.body.data.intAccount

C3_Witness ==
    /\ login.pc = "resolved"
    /\ session.id = "S2"
    /\ session.account = "acc9"

\* C4 as claimed: login rejects, and sends neither the config nor the
\* client-info request, whenever the login response has no JSESSIONID
\* cookie, a non-success status or an error payload; it goes on to the
\* config step only with a cookie and a success status.
C4_Original ==
    /\ (LoginParsed /\ (\/ ~Truthy(login.loginResp.cookie)
                        \/ login.loginResp.outcome = "httperr"
                        \/ login.loginResp.hasErrors))
           => (login.pc = "rejected" /\ ~Sent("config") /\ ~Sent("client"))
    /\ Sent("config")
           => (Truthy(login.loginResp.cookie) /\ login.loginResp.outcome = "ok")

\* C4 as amended: login rejects, and sends neither request, whenever the
\* login response has no JSESSIONID cookie or a non-success HTTP status
\* (with or without an error payload); with a cookie and a success status
\* it goes on to the config step, error payload or not.
C4_Amended ==
    /\ (LoginParsed /\ (\/ ~Truthy(login.loginResp.cookie)
                        \/ login.loginResp.outcome = "httperr"))
           => (login.pc = "rejected" /\ ~Sent("config") /\ ~Sent("client"))
    /\ Sent("config")
           => (Truthy(login.loginResp.cookie) /\ login.loginResp.outcome = "ok")
    /\ (LoginParsed /\ Truthy(login.loginResp.cookie)
                    /\ login.loginResp.outcome = "ok")
           => Sent("config")

C4_Witness ==
    /\ login.pc = "rejected"
    /\ LoginParsed
    /\ login.loginResp.outcome = "httperr"
    /\ login.loginResp.cookie = "S1"
    /\ login.loginResp.hasErrors
    /\ login.log = <<LoginReq(<<"login">>)>>

\* a step of the bootstrap whose response arrived and was not applied
StepFailed(resp) == resp.outcome # "none" /\ ~(resp.outcome = "ok" /\ resp.body.hasData)
StepApplied(resp) == resp.outcome = "ok" /\ resp.body.hasData

\* C5: within one login call the config request is sent only after the login
\* response was accepted and carries its session id; the client-info request
\* is sent only after the config response was applied and goes to its paUrl;
\* login resolves only after the client-info response was applied; after a
\* failed step no later request is sent and login rejects.
C5_StrictOrder ==
    /\ \E n \in 0..3 : [i \in DOMAIN login.log |-> login.log[i].kind]
                           = SubSeq(<<"login", "config", "client">>, 1, n)
    /\ Sent("config")
           => /\ login.loginResp.outcome = "ok"
              /\ Truthy(login.loginResp.cookie)
              /\ login.log[2] = ConfigReq(login.loginResp.cookie)
    /\ Sent("client")
           => /\ StepApplied(login.configResp)
              /\ urls = login.configResp.body.data
              /\ login.log[3].url = login.configResp.body.data.paUrl
              /\ login.log[3].sid = login.loginResp.cookie
    /\ login.pc = "resolved"
           => /\ Sent("client")
              /\ StepApplied(login.clientResp)
              /\ session.account = login.clientResp.body.data.intAccount
              /\ session.userToken = login.clientResp.body.data.id
    /\ (login.loginResp.outcome # "none" /\ ~Sent("config"))
           => login.pc = "rejected"
    /\ StepFailed(login.configResp) => (login.pc = "rejected" /\ ~Sent("client"))
    /\ StepFailed(login.clientResp) => login.pc = "rejected"

C5_Witness ==
    /\ login.pc = "resolved"
    /\ Len(login.log) = 3
    /\ login.log[3] = ClientReq(<<"pa", 2>>, "S1")
    /\ urls.paUrl = <<"pa", 2>>

(***************************************************************************)
(* Claims about the order pipeline (SpecTrade).                            *)
(***************************************************************************)
\* C6: deleteOrder resolves to true exactly when the response body has
\* status 0 and status text "success"; for every other status/text
\* combination in the body the promise rejects.
C6_DeleteTrueIffSuccess ==
    \A c \in TradeCalls :
        (trade[c].op = "deleteOrder" /\ trade[c].deleteResp.outcome = "ok")
            => IF trade[c].deleteResp.body = DeleteBody(0, "success")
               THEN trade[c].pc = "resolved" /\ trade[c].result.kind = "true"
               ELSE trade[c].pc = "rejected"

\* the confirm request of call c was sent
ConfirmSent(c) == trade[c].op = "setOrder" /\ Len(trade[c].log) >= 2

\* C7: in every setOrder call that reaches the confirm step, the confirmation
\* id in the confirm request's path is the confirmationId of that call's
\* checkOrder response, and the order sent on confirm is the order sent on
\* check.
C7_ConfirmationRoundTrip ==
    \A c \in TradeCalls :
        ConfirmSent(c)
            => /\ trade[c].log[2].endpoint = "order"
               /\ trade[c].log[2].param
                      = trade[c].checkResp.body.data.confirmationId
               /\ trade[c].log[2].body = trade[c].log[1].body
               /\ trade[c].log[1].endpoint = "checkOrder"
               /\ trade[c].log[1].body = trade[c].order

C7_Witness ==
    \E c, d \in TradeCalls :
        /\ ConfirmSent(c) /\ ConfirmSent(d)
        /\ trade[c].log[2].param = "cf1"
        /\ trade[d].log[2].param = "cf2"
        /\ trade[c].log[2].body.timeType = TimeTypesDay
        /\ trade[d].log[2].body.timeType = "TimeTypes.gtc"

(***************************************************************************)
(* Claims about getCashFunds (SpecCash).                                   *)
(***************************************************************************)
Omitted == {"handling", "currencyCode"}
\* the name/value pairs of an output object, and of an input entry
PropsOf(obj) == {<<k, obj[k]>> : k \in DOMAIN obj}
PairsOf(entry) == {<<entry[k].name, entry[k].value>> : k \in DOMAIN entry}
NamesOf(entry) == {entry[k].name : k \in DOMAIN entry}
\* the value of the last pair of the entry that carries this name
LastValue(entry, name) ==
    entry[CHOOSE k \in DOMAIN entry :
              /\ entry[k].name = name
              /\ \A j \in DOMAIN entry : entry[j].name = name => j <= k].value

\* C8 as claimed: for every payload that passes validation the output has one
\* entry per input entry, in order, and each output entry holds exactly the
\* name/value pairs of its input entry except handling and currencyCode.
C8_Original ==
    cash.pc = "resolved"
        => /\ Len(cash.result) = Len(cash.resp.body.value)
           /\ \A i \in DOMAIN cash.result :
                  PropsOf(cash.result[i])
                      = {p \in PairsOf(cash.resp.body.value[i]) : p[1] \notin Omitted}

\* C8 as amended: one output entry per input entry, in order; each output
\* entry has exactly the names of its input entry other than handling and
\* currencyCode, each with the value of the last input pair of that name.
C8_Amended ==
    cash.pc = "resolved"
        => /\ Len(cash.result) = Len(cash.resp.body.value)
           /\ \A i \in DOMAIN cash.result :
                  /\ DOMAIN cash.result[i]
                         = NamesOf(cash.resp.body.value[i]) \ Omitted
                  /\ \A n \in DOMAIN cash.result[i] :
                         cash.result[i][n] = LastValue(cash.resp.body.value[i], n)

C8_Witness ==
    /\ cash.pc = "resolved"
    /\ cash.resp.body.value
           = <<EntryOf(<<"handling", "id">>), EntryOf(<<"id", "currencyCode">>)>>
    /\ cash.result = <<[id |-> 20], [id |-> 10]>>

(***************************************************************************)
(* Claims about the dates of getOrders (SpecOrders).                       *)
(***************************************************************************)
\* the date text of the response's open order, and the date getOrders gave it
DateTextIn == orders.resp.body.orders[1].value[1].value
OpenDate == orders.result.openOrders[1].date
CancelledDate == orders.result.cancelledOrders[1].date
\* a five-character text with this separator in the middle, read by position
IsPair(text, sep) == Len(text) = 5 /\ text[3] = sep
FirstNumber(text) == 10 * DigitVal(text[1]) + DigitVal(text[2])
SecondNumber(text) == 10 * DigitVal(text[4]) + DigitVal(text[5])

\* C9: an order record whose date is a bare time "HH:MM" gets the current
\* calendar day with hours HH, minutes MM, seconds 0 and milliseconds 0, for
\* every HH in 0..23 and MM in 0..59.
C9_TimeOfToday ==
    (orders.resp.outcome = "ok" /\ OrdersShapeOk(orders.resp.body)
         /\ IsPair(DateTextIn, ":"))
        => /\ orders.pc = "resolved"
           /\ OpenDate = DateOf(orders.now.year, orders.now.month, orders.now.date,
                                FirstNumber(DateTextIn), SecondNumber(DateTextIn),
                                0, 0)
           /\ CancelledDate = OpenDate

C9_Witness ==
    /\ orders.pc = "resolved"
    /\ DateTextIn = <<"2", "3", ":", "5", "9">>
    /\ orders.now = DateOf(2026, 11, 15, 10, 20, 30, 400)
    /\ OpenDate = DateOf(2026, 11, 15, 23, 59, 0, 0)

\* C10: an order record whose date is a day/month pair "DD/MM" gets day DD,
\* calendar month MM, and the current year when MM does not exceed the
\* current calendar month, the year before when it does, for every current
\* month and every MM in 1..12.
C10_DayOfThisOrLastYear ==
    (orders.resp.outcome = "ok" /\ OrdersShapeOk(orders.resp.body)
         /\ IsPair(DateTextIn, "/"))
        => /\ orders.pc = "resolved"
           /\ OpenDate = DateOf(IF SecondNumber(DateTextIn) > orders.now.month + 1
                                THEN orders.now.year - 1 ELSE orders.now.year,
                                SecondNumber(DateTextIn) - 1,
                                FirstNumber(DateTextIn), 0, 0, 0, 0)

(***************************************************************************)
(* Claims about the records of getOrders (SpecOrders).                     *)
(***************************************************************************)
HasChar(text, c) == \E i \in 1..Len(text) : text[i] = c
\* the rows of all records of a list, in the order the records come
RECURSIVE RowsOf(_)
RowsOf(list) ==
    IF list = <<>> THEN <<>> ELSE Head(list).value \o RowsOf(Tail(list))
AllRows(data) ==
    RowsOf(data.orders) \o RowsOf(data.historicalOrders) \o RowsOf(data.transactions)
IsBadDate(row) ==
    row.name = "date" /\ ~HasChar(row.value, ":") /\ ~HasChar(row.value, "/")
BadDates(data) == SelectSeq(AllRows(data), IsBadDate)
IsIdRow(row) == row.name = "id"
\* the id of the output record: the record's id, replaced by the value of
\* its last row named 'id' if it has one
FlattenedId(rec) ==
    LET idRows == SelectSeq(rec.value, IsIdRow)
    IN  IF idRows = <<>> THEN rec.id ELSE idRows[Len(idRows)].value
InputIds(out, in) ==
    Len(out) = Len(in) /\ \A i \in 1..Len(in) : out[i].id = in[i].id
FlattenedIds(out, in) ==
    Len(out) = Len(in) /\ \A i \in 1..Len(in) : out[i].id = FlattenedId(in[i])
OrdersAnswered == orders.resp.outcome = "ok" /\ OrdersShapeOk(orders.resp.body)

\* C11 as stated: a date value of neither format in any record of the three
\* lists rejects getOrders with the parse error naming such a value and no
\* result; otherwise getOrders resolves with one record per input record of
\* each list, in input order, each with the id of its input record.
C11_Original ==
    OrdersAnswered =>
        IF BadDates(orders.resp.body) # <<>>
        THEN /\ orders.pc = "rejected"
             /\ orders.error = "Unexpected date format"
             /\ \E i \in 1..Len(BadDates(orders.resp.body)) :
                    orders.bad = BadDates(orders.resp.body)[i].value
             /\ orders.result = NoOrdersResult
        ELSE /\ orders.pc = "resolved"
             /\ InputIds(orders.result.openOrders, orders.resp.body.orders)
             /\ InputIds(orders.result.cancelledOrders,
                         orders.resp.body.historicalOrders)
             /\ InputIds(orders.result.completedOrders,
                         orders.resp.body.transactions)

\* C11 amended: the parse error names the first such value in the order
\* orders, historicalOrders, transactions; a resolved record has the id of
\* its input record unless the record has a row named 'id', whose value then
\* is the id.
C11_Amended ==
    OrdersAnswered =>
        IF BadDates(orders.resp.body) # <<>>
        THEN /\ orders.pc = "rejected"
             /\ orders.error = "Unexpected date format"
             /\ orders.bad = BadDates(orders.resp.body)[1].value
             /\ orders.result = NoOrdersResult
        ELSE /\ orders.pc = "resolved"
             /\ FlattenedIds(orders.result.openOrders, orders.resp.body.orders)
             /\ FlattenedIds(orders.result.cancelledOrders,
                             orders.resp.body.historicalOrders)
             /\ FlattenedIds(orders.result.completedOrders,
                             orders.resp.body.transactions)

\* getOrders rejected on the second open order, a later list holding
\* another text of neither format
C11_Witness ==
    /\ orders.pc = "rejected"
    /\ orders.error = "Unexpected date format"
    /\ orders.bad = <<"n", "o", "w">>
    /\ Len(BadDates(orders.resp.body)) = 2

(***************************************************************************)
(* Claims about the one-exchange operations (SpecFetcher).                 *)
(***************************************************************************)
FetcherDone == fetcher.pc \in {"resolved", "rejected"}
FetcherAnswered == FetcherDone /\ fetcher.resp.outcome = "ok"

\* C12: a data fetcher issues exactly one HTTP GET per call; when the
\* successful response lacks the expected top-level key, or the key's value
\* is not an array, it rejects with the bad-result error that carries the
\* payload, and it never resolves with a payload of the wrong shape.
C12_FetchersValidateShape ==
    /\ (FetcherDone /\ fetcher.op \in {"getPortfolio", "getTasks", "getOrdersHistory",
                                       "getTransactions", "getClientInfo"})
           => Len(fetcher.log) = 1 /\ fetcher.log[1].method = "GET"
    /\ (FetcherAnswered /\ fetcher.op \in {"getPortfolio", "getTasks",
                                           "getOrdersHistory", "getTransactions"})
           => IF fetcher.resp.body.present /\ fetcher.resp.body.isArray
              THEN fetcher.pc = "resolved"
              ELSE fetcher.pc = "rejected" /\ fetcher.error = "Bad result"
    /\ (FetcherAnswered /\ fetcher.op = "getClientInfo"
            /\ ~fetcher.resp.body.hasData)
           => fetcher.pc = "rejected" /\ fetcher.error = "Bad result"

(***************************************************************************)
(* Claims about failures of the quote poller's exchanges (SpecQuote).      *)
(***************************************************************************)
\* C13: if an HTTP exchange of an operation fails (transport failure or
\* non-success HTTP status) the operation's promise rejects; for the quote
\* poller: a call whose subscribe POST was answered with a non-success
\* status does not go on to resolve, or to retry, on the poll that follows.
C13_SubscribeFailureRejects ==
    [][\A c \in QuoteCalls :
           (quote[c].subscribeStatus = "httperr" /\ quote'[c] # quote[c])
               => quote'[c].pc = "rejected"]_vars

(***************************************************************************)
(* Claims about who writes session and urls (SpecFetcher).                 *)
(***************************************************************************)
\* C14: session and urls are written only by the login bootstrap: no step of
\* a data fetcher (getClientInfo among them), of searchProduct or of
\* getProductsByIds, called on its own, changes a field of session or a
\* routing URL, whether the call resolves or rejects.
C14_OnlyBootstrapWrites ==
    [][fetcher.op \in FetcherOps \ {"updateConfig"}
           => (session' = session /\ urls' = urls)]_vars

(***************************************************************************)
(* Claims about the session a login returns (SpecLogin).                   *)
(***************************************************************************)
\* C15: whenever login resolves, session.userToken is the id of the
\* client-info response, session.clientInfo (null at creation) holds the
\* client-info data, and the six routing URLs are those of the config
\* response of that login.
C15_SessionFullyPopulated ==
    login.pc = "resolved"
        => /\ session.userToken = login.clientResp.body.data.id
           /\ urls = login.configResp.body.data
           /\ session.clientInfo # Null

(***************************************************************************)
(* Claims about the attempts of one getAskBidPrice call (SpecQuote).       *)
(***************************************************************************)
QuoteKinds == <<"session", "subscribe", "poll">>
\* the attempt the i-th request of a call belongs to
AttemptOf(i) == (i + 2) \div 3
QuoteEnded(c) == quote[c].pc \in {"resolved", "rejected"}
SameCounts(c) ==
    /\ Count(quote[c].log, "session") = Count(quote[c].log, "subscribe")
    /\ Count(quote[c].log, "subscribe") = Count(quote[c].log, "poll")
\* subscribe and poll of every attempt go to the session id handed out for
\* the session request of that attempt
OwnSessionIds(c) ==
    \A i \in DOMAIN quote[c].log :
        /\ quote[c].log[i].kind = QuoteKinds[((i - 1) % 3) + 1]
        /\ quote[c].log[i].sid
               = IF quote[c].log[i].kind = "session" THEN <<>>
                 ELSE <<c, AttemptOf(i)>>

\* C16 as stated: every attempt runs session request, subscribe, poll in
\* that order on the session id obtained in that attempt, and a call that
\* has ended made as many session requests as subscribe POSTs as poll GETs.
C16_Original ==
    \A c \in QuoteCalls :
        /\ OwnSessionIds(c)
        /\ QuoteEnded(c) => SameCounts(c)

\* C16 amended: the requests of a call are session request, subscribe, poll
\* repeated in that order, each subscribe and poll on the session id of its
\* own attempt; an attempt is cut short by the failure of its session
\* request or subscribe POST, so the three numbers are equal in every call
\* that resolved or that was rejected by checkData, and otherwise the
\* session requests exceed the polls by at most one.
C16_Amended ==
    \A c \in QuoteCalls :
        /\ OwnSessionIds(c)
        /\ (quote[c].pc = "resolved"
                \/ quote[c].error \in {"Bad result", "Tried 3 times"})
               => SameCounts(c)
        /\ Count(quote[c].log, "session") - Count(quote[c].log, "poll") \in {0, 1}
        /\ Count(quote[c].log, "session") - Count(quote[c].log, "subscribe")
               \in {0, 1}

\* a call that resolved in its second attempt
C16_Witness ==
    \E c \in QuoteCalls :
        /\ quote[c].pc = "resolved"
        /\ Len(quote[c].log) = 6
        /\ quote[c].log[5].sid = <<c, 2>>
        /\ quote[c].log[6].sid = <<c, 2>>

(***************************************************************************)
(* Claims about the price map of getAskBidPrice (SpecQuote).               *)
(***************************************************************************)
\* the add-request rows of the instrument: those named "<issueId>.<Field>"
OwnReqRows(issueId, rows) ==
    {i \in DOMAIN rows : /\ rows[i].m = "a_req"
                         /\ startsWith(rows[i].v[1], issueId \o <<".">>)}
FieldOfRow(issueId, rows, i) == lcFirst(slice(rows[i].v[1], Len(issueId) + 1))
OwnFields(issueId, rows) ==
    {FieldOfRow(issueId, rows, i) : i \in OwnReqRows(issueId, rows)}
\* the update rows that carry a stream key of the field
UpdatesOf(issueId, rows, field) ==
    {j \in DOMAIN rows :
        /\ rows[j].m \in {"un", "us"}
        /\ \E i \in OwnReqRows(issueId, rows) :
               FieldOfRow(issueId, rows, i) = field /\ rows[i].v[2] = rows[j].v[1]}
Latest(S) == CHOOSE j \in S : \A k \in S : k <= j
HasFieldValue(issueId, rows, prices, field) ==
    IF UpdatesOf(issueId, rows, field) = {} THEN prices[field] = Null
    ELSE prices[field] = rows[Latest(UpdatesOf(issueId, rows, field))].v[2]

\* C17: the price map a call resolves with has as keys exactly the fields
\* of the add-request rows of the requested instrument, prefix stripped and
\* first letter lower-cased, each with the value of the last update row of
\* its stream key, or null; rows of other instruments and updates of
\* unmapped stream keys add no key.
C17_OnlyFieldsOfInstrument ==
    \A c \in QuoteCalls :
        quote[c].pc = "resolved"
            => LET rows == quote[c].polled[Len(quote[c].polled)].rows
                   id == quote[c].issueId
               IN  /\ DOMAIN quote[c].result = OwnFields(id, rows)
                   /\ \A f \in OwnFields(id, rows) :
                          HasFieldValue(id, rows, quote[c].result, f)

(***************************************************************************)
(* Claims about the order of check and confirm in setOrder (SpecTrade).    *)
(***************************************************************************)
\* the check exchange succeeded and its response carries a confirmation id
CheckGaveConfirmationId(c) ==
    /\ trade[c].checkResp.outcome = "ok"
    /\ trade[c].checkResp.body.hasData
    /\ trade[c].checkResp.body.data.confirmationId # Undefined
ConfirmRequests(c) ==
    {i \in DOMAIN trade[c].log : trade[c].log[i].endpoint = "order"}

\* C18: in a setOrder call the confirm request is sent at most once, and only
\* after the check exchange succeeded and returned a confirmation id; a
\* check exchange that fails, or whose response has no confirmation id,
\* rejects setOrder with no confirm request sent; setOrder resolves only
\* after a successful confirm response.
C18_ConfirmOnlyAfterCheck ==
    \A c \in TradeCalls :
        trade[c].op = "setOrder"
            => /\ Cardinality(ConfirmRequests(c)) <= 1
               /\ ConfirmRequests(c) # {} => CheckGaveConfirmationId(c)
               /\ (trade[c].checkResp.outcome # "none"
                       /\ ~CheckGaveConfirmationId(c))
                      => (trade[c].pc = "rejected" /\ ConfirmRequests(c) = {})
               /\ trade[c].pc = "resolved"
                      => trade[c].confirmResp.outcome = "ok"

(***************************************************************************)
(* Claims about which poll responses are retried (SpecQuote).              *)
(***************************************************************************)
\* an array of exactly one row whose kind is heartbeat
OneHeartbeatRow(res) ==
    res.isArray /\ Len(res.rows) = 1 /\ res.rows[1].m = "h"
\* the i-th poll response of the call was followed by a further session request
RetriedAfter(c, i) == Count(quote[c].log, "session") > i
\* what a response that is no lone heartbeat does to the call
EndsCall(c, i) ==
    /\ i = Len(quote[c].polled)
    /\ ~RetriedAfter(c, i)
    /\ IF quote[c].polled[i].isArray THEN quote[c].pc = "resolved"
       ELSE quote[c].pc = "rejected" /\ quote[c].error = "Bad result"

\* C19 as stated: a poll response is retried if and only if it is an array
\* of exactly one heartbeat row; a non-array rejects at once with the
\* bad-result error, every other array ends the call in that attempt.
C19_Original ==
    \A c \in QuoteCalls : \A i \in DOMAIN quote[c].polled :
        IF OneHeartbeatRow(quote[c].polled[i]) THEN RetriedAfter(c, i)
        ELSE EndsCall(c, i)

\* C19 amended: only a lone heartbeat is retried, and it is retried unless
\* the call has used up its retries, in which case the call rejects with
\* the timeout error; a non-array rejects at once with the bad-result error,
\* every other array ends the call in that attempt.
C19_Amended ==
    \A c \in QuoteCalls : \A i \in DOMAIN quote[c].polled :
        IF OneHeartbeatRow(quote[c].polled[i])
        THEN \/ RetriedAfter(c, i)
             \/ /\ i = Len(quote[c].polled)
                /\ quote[c].pc = "rejected"
                /\ quote[c].error = "Tried 3 times"
        ELSE EndsCall(c, i)

\* a call retried after a heartbeat and ended by a single row that is none
C19_Witness ==
    \E c \in QuoteCalls :
        /\ quote[c].polled = <<Heartbeat, DataD>>
        /\ quote[c].pc = "resolved"
        /\ Count(quote[c].log, "session") = 2

(***************************************************************************)
(* Claims about checkSuccess (SpecFetcher).                                *)
(***************************************************************************)
\* the operation's chain has run checkSuccess on a response
Checked ==
    /\ FetcherDone
    /\ fetcher.op \in PlainOps
    /\ fetcher.resp.outcome \in {"httperr", "ok"}

\* C20: on a response with a non-success status checkSuccess fails the
\* operation with the first vendor error text when the body carries an
\* errors list and with '<status> - <reason>' otherwise; on a response with
\* a success status it returns the parsed body unchanged, whatever the body
\* contains.
C20_CheckSuccess ==
    Checked =>
        IF fetcher.resp.res.ok
        THEN fetcher.pc = "resolved" /\ fetcher.result = fetcher.resp.body
        ELSE /\ fetcher.pc = "rejected"
             /\ fetcher.message
                    = IF fetcher.resp.body.hasErrors
                          /\ fetcher.resp.body.errors # <<>>
                      THEN <<fetcher.resp.body.errors[1].text>>
                      ELSE <<fetcher.resp.res.status, " - ",
                             fetcher.resp.res.statusText>>

(***************************************************************************)
(* Claims about the termination of getAskBidPrice (SpecQuoteLive).         *)
(***************************************************************************)
QuoteStarted(c) == quote[c].pc # "idle"
\* the requests of four attempts
RequestsOfACall == 4 * Len(QuoteKinds)

\* C21: when every HTTP request it issues eventually completes, every
\* getAskBidPrice call eventually resolves or rejects, and it issues a
\* bounded number of requests, also when every poll is answered with a
\* lone heartbeat.
C21_CallSettles ==
    /\ [](\A c \in QuoteCalls : Len(quote[c].log) <= RequestsOfACall)
    /\ \A c \in QuoteCalls : QuoteStarted(c) ~> QuoteEnded(c)

\* a call that was answered with heartbeats only and has been rejected
C21_Witness ==
    \E c \in QuoteCalls :
        /\ quote[c].pc = "rejected"
        /\ quote[c].error = "Tried 3 times"
        /\ quote[c].polled # <<>>
        /\ AllHeartbeats(quote[c].polled)

(***************************************************************************)
(* Claims about concurrent getAskBidPrice calls (SpecQuote).               *)
(***************************************************************************)
\* the call's counter, session ids and price map come from its own exchanges
OwnState(c) ==
    /\ quote[c].timesChecked = Len(quote[c].polled)
    /\ \A i \in DOMAIN quote[c].log :
           quote[c].log[i].kind # "session" => quote[c].log[i].sid[1] = c
    /\ quote[c].vwdSession # NoSid => quote[c].vwdSession[1] = c
    /\ quote[c].error = "Tried 3 times"
           => (AllHeartbeats(quote[c].polled) /\ Len(quote[c].polled) = 4)
    /\ quote[c].pc = "resolved"
           => quote[c].result
                  = ProcessData(quote[c].issueId,
                                quote[c].polled[Len(quote[c].polled)].rows)

\* C22: getAskBidPrice calls that run concurrently, in any interleaving of
\* their HTTP completions, share no attempt counter, no quote-service
\* session id and no price map: a step of one call changes nothing of
\* another call, each call's counter counts its own poll responses, its
\* requests go to its own sessions, and its result is built from the rows
\* of its own last poll.
C22_CallsIsolated ==
    /\ [](\A c \in QuoteCalls : OwnState(c))
    /\ [][\A c, d \in QuoteCalls :
              (c # d /\ quote'[c] # quote[c]) => quote'[d] = quote[d]]_vars

\* two calls in flight at once, in different attempts
C22_Witness ==
    /\ quote[1].pc = "poll"
    /\ quote[1].timesChecked = 1
    /\ quote[2].pc = "subscribe"
    /\ quote[2].timesChecked = 3

(***************************************************************************)
(* Claims about session.id after a login attempt (SpecLogin).              *)
(***************************************************************************)
\* C23: once the login response of an attempt was received and parsed,
\* session.id is the JSESSIONID cookie of that response (none when it had
\* none), whether the login resolves or rejects, so a rejected login leaves
\* no earlier or pre-configured session id in place; the step that takes
\* the login response changes no routing URL, and no field of session
\* other than id.
C23_SessionIdIsLastCookie ==
    /\ [](LoginParsed => session.id = login.loginResp.cookie)
    /\ [][login.pc = "login"
              => /\ urls' = urls
                 /\ session' = [session EXCEPT !.id = session'.id]]_vars

\* a login rejected for a response without a cookie, after an earlier login
\* had succeeded: the earlier session id is gone, the routing URLs are kept
C23_Witness ==
    /\ login.pc = "rejected"
    /\ login.loginResp.outcome = "ok"
    /\ login.loginResp.cookie = Undefined
    /\ session.id = Undefined
    /\ urls # NewUrls
    /\ session.userToken # Null

=============================================================================
